---- MODULE Spec2Model ----
(***************************************************************************)
(* Model of MorseCodeGenerator (src/src/MorseCodeGenerator.hpp).           *)
(*                                                                         *)
(* A std::string is modelled as a sequence of one-character strings, so    *)
(* that tokenizing, upper-casing and table lookups work on characters.     *)
(* The Morse output is a TLA+ string built with \o, so that separators     *)
(* are compared space for space.                                           *)
(***************************************************************************)
EXTENDS Integers, Sequences, FiniteSets, TLC

VARIABLES message, words, wordIndex, calls, ret, gm, drain

vars == <<message, words, wordIndex, calls, ret, gm, drain>>

(***************************************************************************)
(* Bounds of the model.                                                    *)
(***************************************************************************)
\* longest message drawn exhaustively over Alphabet
MaxLen == 3
\* getNext() calls allowed past the end of the message
MaxEOM == 2

(***************************************************************************)
(* Tables of the class.                                                    *)
(***************************************************************************)
morseTable ==
     ("A" :> ". -") @@ ("B" :> "- . . .") @@ ("C" :> "- . - .") @@ ("D" :> "- . .")
  @@ ("E" :> ".") @@ ("F" :> ". . - .") @@ ("G" :> "- - .") @@ ("H" :> ". . . .")
  @@ ("I" :> ". .") @@ ("J" :> ". - - -") @@ ("K" :> "- . -") @@ ("L" :> ". - . .")
  @@ ("M" :> "- -") @@ ("N" :> "- .") @@ ("O" :> "- - -") @@ ("P" :> ". - - .")
  @@ ("Q" :> "- - . -") @@ ("R" :> ". - .") @@ ("S" :> ". . .") @@ ("T" :> "-")
  @@ ("U" :> ". . -") @@ ("V" :> ". . . -") @@ ("W" :> ". - -") @@ ("X" :> "- . . -")
  @@ ("Y" :> "- . - -") @@ ("Z" :> "- - . .")
  @@ ("0" :> "- - - - -") @@ ("1" :> ". - - - -") @@ ("2" :> ". . - - -")
  @@ ("3" :> ". . . - -") @@ ("4" :> ". . . . -") @@ ("5" :> ". . . . .")
  @@ ("6" :> "- . . . .") @@ ("7" :> "- - . . .") @@ ("8" :> "- - - . .")
  @@ ("9" :> "- - - - .")
  @@ ("." :> ". - . - . -") @@ ("," :> "- - . . - -") @@ (":" :> "- - - . . .")
  @@ ("?" :> ". . - - . .") @@ ("/" :> "- . . - .") @@ ("-" :> "- . . . . -")
  @@ ("(" :> "- . - - . -") @@ (")" :> "- . - - . -") @@ ("=" :> "- . . . -")
  @@ ("+" :> ". - . - .") @@ ("&" :> ". - . . .") @@ ("'" :> ". - - - - .")
  @@ ("!" :> "- . - . - -") @@ ("_" :> ". . - - . -") @@ ("\"" :> ". - . . - .")
  @@ ("$" :> ". . . - . . -") @@ ("@" :> ". - - . - .")

prosigns ==
     (<<"A", "R">> :> ". - . - .")
  @@ (<<"S", "K">> :> ". . . - . -")
  @@ (<<"B", "T">> :> "- . . . -")

(***************************************************************************)
(* Library behaviour the class relies on.                                  *)
(***************************************************************************)
\* std::toupper in the "C" locale: a-z map to A-Z, everything else to itself
UpperOf ==
     ("a" :> "A") @@ ("b" :> "B") @@ ("c" :> "C") @@ ("d" :> "D") @@ ("e" :> "E")
  @@ ("f" :> "F") @@ ("g" :> "G") @@ ("h" :> "H") @@ ("i" :> "I") @@ ("j" :> "J")
  @@ ("k" :> "K") @@ ("l" :> "L") @@ ("m" :> "M") @@ ("n" :> "N") @@ ("o" :> "O")
  @@ ("p" :> "P") @@ ("q" :> "Q") @@ ("r" :> "R") @@ ("s" :> "S") @@ ("t" :> "T")
  @@ ("u" :> "U") @@ ("v" :> "V") @@ ("w" :> "W") @@ ("x" :> "X") @@ ("y" :> "Y")
  @@ ("z" :> "Z")

toupper(c) == IF c \in DOMAIN UpperOf THEN UpperOf[c] ELSE c

\* the characters operator>> skips and stops at (std::isspace, "C" locale)
WhiteSpace == {" ", "\t", "\n", "\r", "\f"}

(***************************************************************************)
(* Outcome of a call: a returned string or a thrown invalid_argument that  *)
(* carries the offending character.                                        *)
(***************************************************************************)
Returned(s) == [kind |-> "value", val |-> s, ch |-> ""]
Thrown(c)   == [kind |-> "throw", val |-> "", ch |-> c]
Void        == [kind |-> "void", val |-> "", ch |-> ""]
NoOutcome   == [kind |-> "none", val |-> "", ch |-> ""]

(***************************************************************************)
(* tokenizeMessage: repeated "stream >> word", each word upper-cased.      *)
(***************************************************************************)
RECURSIVE skipWhite(_, _)
skipWhite(msg, pos) ==
  IF pos <= Len(msg) /\ msg[pos] \in WhiteSpace THEN skipWhite(msg, pos + 1) ELSE pos

\* variant: only the space character ends a word
RECURSIVE wordEnd_SpaceOnly(_, _)
wordEnd_SpaceOnly(msg, pos) ==
  IF pos <= Len(msg) /\ msg[pos] # " " THEN wordEnd_SpaceOnly(msg, pos + 1) ELSE pos

RECURSIVE wordEnd(_, _)
wordEnd(msg, pos) ==
  IF pos <= Len(msg) /\ msg[pos] \notin WhiteSpace THEN wordEnd(msg, pos + 1) ELSE pos

\* variant: the words are stored as typed, not upper-cased
RECURSIVE tokenizeFrom_AsTyped(_, _, _)
tokenizeFrom_AsTyped(msg, pos, tokens) ==
  LET start == skipWhite(msg, pos)
      stop  == wordEnd(msg, start)
      word  == [j \in 1..(stop - start) |-> msg[start + j - 1]]
  IN  IF start > Len(msg) THEN tokens
      ELSE tokenizeFrom_AsTyped(msg, stop, Append(tokens, word))

\* variant: every single whitespace character ends a word, as a split would
RECURSIVE tokenizeFrom_Split(_, _, _)
tokenizeFrom_Split(msg, pos, tokens) ==
  LET stop == wordEnd(msg, pos)
      word == [j \in 1..(stop - pos) |-> toupper(msg[pos + j - 1])]
  IN  IF pos > Len(msg) THEN tokens
      ELSE tokenizeFrom_Split(msg, stop + 1, Append(tokens, word))

RECURSIVE tokenizeFrom(_, _, _)
tokenizeFrom(msg, pos, tokens) ==
  LET start == skipWhite(msg, pos)
      stop  == wordEnd(msg, start)
      word  == [j \in 1..(stop - start) |-> toupper(msg[start + j - 1])]
  IN  IF start > Len(msg) THEN tokens
      ELSE tokenizeFrom(msg, stop, Append(tokens, word))

tokenizeMessage(msg) == tokenizeFrom(msg, 1, <<>>)

(***************************************************************************)
(* getMessage: the loop over the words of tokenizeMessage(message).        *)
(***************************************************************************)
\* variant: an unsupported character is skipped instead of reported
RECURSIVE getMessageChars_Skip(_, _, _, _)
getMessageChars_Skip(word, j, result, firstChar) ==
  IF j > Len(word) THEN Returned(result)
  ELSE LET c == toupper(word[j])
       IN  IF c \notin DOMAIN morseTable
           THEN getMessageChars_Skip(word, j + 1, result, firstChar)
           ELSE getMessageChars_Skip(word, j + 1,
                  (IF ~firstChar THEN result \o "   " ELSE result) \o morseTable[c],
                  FALSE)

RECURSIVE getMessageChars(_, _, _, _)
getMessageChars(word, j, result, firstChar) ==
  IF j > Len(word) THEN Returned(result)
  ELSE LET c == toupper(word[j])
       IN  IF c \notin DOMAIN morseTable THEN Thrown(c)
           ELSE getMessageChars(word, j + 1,
                  (IF ~firstChar THEN result \o "   " ELSE result) \o morseTable[c],
                  FALSE)

\* variant: the word separator follows every word
RECURSIVE getMessageWords_Trailing(_, _, _, _)
getMessageWords_Trailing(tokens, i, result, firstWord) ==
  IF i > Len(tokens) THEN Returned(result)
  ELSE LET word == tokens[i]
       IN  IF word \in DOMAIN prosigns
           THEN getMessageWords_Trailing(tokens, i + 1,
                  result \o prosigns[word] \o "       ", FALSE)
           ELSE LET r == getMessageChars(word, 1, result, TRUE)
                IN  IF r.kind = "throw" THEN r
                    ELSE getMessageWords_Trailing(tokens, i + 1, r.val \o "       ", FALSE)

\* variant: prosigns are spelled out letter by letter
RECURSIVE getMessageWords_NoProsign(_, _, _, _)
getMessageWords_NoProsign(tokens, i, result, firstWord) ==
  IF i > Len(tokens) THEN Returned(result)
  ELSE LET word == tokens[i]
           r1   == IF ~firstWord THEN result \o "       " ELSE result
           r    == getMessageChars(word, 1, r1, TRUE)
       IN  IF r.kind = "throw" THEN r
           ELSE getMessageWords_NoProsign(tokens, i + 1, r.val, FALSE)

RECURSIVE getMessageWords(_, _, _, _)
getMessageWords(tokens, i, result, firstWord) ==
  IF i > Len(tokens) THEN Returned(result)
  ELSE LET word == tokens[i]
           r1   == IF ~firstWord THEN result \o "       " ELSE result
       IN  IF word \in DOMAIN prosigns
           THEN getMessageWords(tokens, i + 1, r1 \o prosigns[word], FALSE)
           ELSE LET r == getMessageChars(word, 1, r1, TRUE)
                IN  IF r.kind = "throw" THEN r
                    ELSE getMessageWords(tokens, i + 1, r.val, FALSE)

getMessage(msg) == getMessageWords(tokenizeMessage(msg), 1, "", TRUE)

(***************************************************************************)
(* getNext: the sentinel test, the post-increment, the encoding of the     *)
(* word taken.  words[wordIndex] of the code is w[i + 1] here.             *)
(***************************************************************************)
\* variant: the incremental encoder passes over an unsupported character
RECURSIVE getNextChars_Lenient(_, _, _, _)
getNextChars_Lenient(word, j, result, first) ==
  IF j > Len(word) THEN Returned(result)
  ELSE LET c == toupper(word[j])
       IN  IF c \notin DOMAIN morseTable
           THEN getNextChars_Lenient(word, j + 1, result, first)
           ELSE getNextChars_Lenient(word, j + 1,
                  (IF ~first THEN result \o "   " ELSE result) \o morseTable[c],
                  FALSE)

RECURSIVE getNextChars(_, _, _, _)
getNextChars(word, j, result, first) ==
  IF j > Len(word) THEN Returned(result)
  ELSE LET c == toupper(word[j])
       IN  IF c \notin DOMAIN morseTable THEN Thrown(c)
           ELSE getNextChars(word, j + 1,
                  (IF ~first THEN result \o "   " ELSE result) \o morseTable[c],
                  FALSE)

\* variant: a word that starts with a prosign key is taken for the prosign
getNextWord_Prefix(word) ==
  LET keys == {k \in DOMAIN prosigns : Len(word) >= Len(k) /\ SubSeq(word, 1, Len(k)) = k}
  IN  IF keys # {} THEN Returned(prosigns[CHOOSE k \in keys : TRUE])
      ELSE getNextChars(word, 1, "", TRUE)

getNextWord(word) ==
  IF word \in DOMAIN prosigns THEN Returned(prosigns[word])
  ELSE getNextChars(word, 1, "", TRUE)

\* variant: the cursor is not advanced
getNext_NoAdvance(w, i) ==
  IF i >= Len(w)
  THEN [index |-> i, word |-> <<>>, out |-> Returned("<EOM>")]
  ELSE [index |-> i, word |-> w[i + 1], out |-> getNextWord(w[i + 1])]

\* variant: the cursor wraps to the first word at the end of the message
getNext_Wrap(w, i) ==
  IF i >= Len(w)
  THEN [index |-> 0, word |-> <<>>, out |-> Returned("<EOM>")]
  ELSE [index |-> i + 1, word |-> w[i + 1], out |-> getNextWord(w[i + 1])]

\* variant: the cursor is advanced only after the word was encoded
getNext_Retry(w, i) ==
  IF i >= Len(w)
  THEN [index |-> i, word |-> <<>>, out |-> Returned("<EOM>")]
  ELSE LET r == getNextWord(w[i + 1])
       IN  [index |-> IF r.kind = "throw" THEN i ELSE i + 1, word |-> w[i + 1], out |-> r]

\* variant: the cursor is incremented in the sentinel test itself
getNext_NoClamp(w, i) ==
  IF i >= Len(w)
  THEN [index |-> i + 1, word |-> <<>>, out |-> Returned("<EOM>")]
  ELSE [index |-> i + 1, word |-> w[i + 1], out |-> getNextWord(w[i + 1])]

getNext(w, i) ==
  IF i >= Len(w)
  THEN [index |-> i, word |-> <<>>, out |-> Returned("<EOM>")]
  ELSE [index |-> i + 1, word |-> w[i + 1], out |-> getNextWord(w[i + 1])]

(***************************************************************************)
(* Inputs.                                                                 *)
(***************************************************************************)
Alphabet == {"A", "r", "~", " "}

BoundedMessages == UNION {[1..n -> Alphabet] : n \in 0..MaxLen}

\* the messages of main.cpp and of the documented examples
MsgCQ     == <<"C", "Q", " ", "A", "R", " ", "D", "E", " ", "K">>
MsgARSK   == <<"A", "R", " ", "S", "K">>
MsgHelloAt    == <<"H", "E", "L", "L", "O", " ", "@", " ", "W", "O", "R", "L", "D">>
MsgHelloTilde == <<"H", "E", "L", "L", "O", " ", "~", " ", "W", "O", "R", "L", "D">>
MsgARS    == <<"A", "R", "S">>
MsgxAR    == <<"x", "A", "R">>
MsgMixed  == <<"\t", "b", "t", "\n", "s", "k", " ", "#", "a", " ", "B", "T", "S", "\r">>

MsgTwoBad == <<"o", "k", " ", "a", "#", "%", " ", "~">>
MsgBlank  == <<" ", "\t", "\n", "\r", "\f">>

TestMessages ==
  {MsgCQ, MsgARSK, MsgHelloAt, MsgHelloTilde, MsgARS, MsgxAR, MsgMixed, MsgTwoBad,
   MsgBlank}

Messages == BoundedMessages \cup TestMessages

(***************************************************************************)
(* State machine.  ret records the last call and its outcome: op, the      *)
(* argument of setMessage, the state the call was made in, the word a      *)
(* getNext() took, and what the call returned or threw.  calls counts the  *)
(* getNext() calls since the message was last set or cleared.  gm is the   *)
(* outcome of the first getMessage() since then.  drain is what a caller   *)
(* draining getNext() has collected since then: the results that are not   *)
(* the sentinel, in order, and whether a call has thrown.                  *)
(***************************************************************************)
StateName(w, i) ==
  IF Len(w) = 0 THEN "Empty"
  ELSE IF i >= Len(w) THEN "Exhausted"
  ELSE IF i = 0 THEN "Ready" ELSE "Partial"

Call(op, arg, word, out) ==
  [op |-> op, arg |-> arg, from |-> StateName(words, wordIndex), word |-> word,
   kind |-> out.kind, val |-> out.val, ch |-> out.ch]

NoDrain == [failed |-> FALSE, parts |-> <<>>]

Collect(d, out) ==
  IF out.kind = "throw" THEN [d EXCEPT !.failed = TRUE]
  ELSE IF out.val = "<EOM>" THEN d
  ELSE [d EXCEPT !.parts = Append(@, out.val)]

Init ==
  /\ message = <<>>
  /\ words = <<>>
  /\ wordIndex = 0
  /\ calls = 0
  /\ ret = [op |-> "construct", arg |-> <<>>, from |-> "Empty", word |-> <<>>,
            kind |-> "void", val |-> "", ch |-> ""]
  /\ gm = NoOutcome
  /\ drain = NoDrain

\* variant: the cursor survives the new message
SetMessage_KeepIndex(msg) ==
  /\ message' = msg
  /\ words' = tokenizeMessage(msg)
  /\ wordIndex' = wordIndex
  /\ calls' = 0
  /\ gm' = NoOutcome
  /\ drain' = NoDrain
  /\ ret' = Call("setMessage", msg, <<>>, Void)

\* variant: the message is validated when it is set
SetMessage_Validate(msg) ==
  /\ message' = msg
  /\ words' = tokenizeMessage(msg)
  /\ wordIndex' = 0
  /\ calls' = 0
  /\ gm' = NoOutcome
  /\ drain' = NoDrain
  /\ ret' = Call("setMessage", msg, <<>>,
                 IF getMessage(msg).kind = "throw" THEN getMessage(msg) ELSE Void)

SetMessage(msg) ==
  /\ message' = msg
  /\ words' = tokenizeMessage(msg)
  /\ wordIndex' = 0
  /\ calls' = 0
  /\ gm' = NoOutcome
  /\ drain' = NoDrain
  /\ ret' = Call("setMessage", msg, <<>>, Void)

\* variant: the words of the old message are not dropped
ClearMessage_KeepWords ==
  /\ message' = <<>>
  /\ words' = words
  /\ wordIndex' = 0
  /\ calls' = 0
  /\ gm' = NoOutcome
  /\ drain' = NoDrain
  /\ ret' = Call("clearMessage", <<>>, <<>>, Void)

\* variant: the text of the old message is not dropped
ClearMessage_KeepMessage ==
  /\ message' = message
  /\ words' = <<>>
  /\ wordIndex' = 0
  /\ calls' = 0
  /\ gm' = NoOutcome
  /\ drain' = NoDrain
  /\ ret' = Call("clearMessage", <<>>, <<>>, Void)

ClearMessage ==
  /\ message' = <<>>
  /\ words' = <<>>
  /\ wordIndex' = 0
  /\ calls' = 0
  /\ gm' = NoOutcome
  /\ drain' = NoDrain
  /\ ret' = Call("clearMessage", <<>>, <<>>, Void)

\* variant: the bulk encoding starts at the cursor
GetMessage_FromCursor ==
  LET r == getMessageWords(SubSeq(words, wordIndex + 1, Len(words)), 1, "", TRUE)
  IN  /\ ret' = Call("getMessage", <<>>, <<>>, r)
      /\ gm' = IF gm.kind = "none" THEN r ELSE gm
      /\ UNCHANGED <<message, words, wordIndex, calls, drain>>

GetMessage ==
  /\ ret' = Call("getMessage", <<>>, <<>>, getMessage(message))
  /\ gm' = IF gm.kind = "none" THEN getMessage(message) ELSE gm
  /\ UNCHANGED <<message, words, wordIndex, calls, drain>>

GetNext ==
  /\ calls < Len(words) + MaxEOM
  /\ LET r == getNext(words, wordIndex)
     IN  /\ wordIndex' = r.index
         /\ ret' = Call("getNext", <<>>, r.word, r.out)
         /\ drain' = Collect(drain, r.out)
  /\ calls' = calls + 1
  /\ UNCHANGED <<message, words, gm>>

Next ==
  \/ \E msg \in Messages : SetMessage(msg)
  \/ ClearMessage
  \/ GetMessage
  \/ GetNext

Spec == Init /\ [][Next]_vars

(***************************************************************************)
(* The consumer loop of main.cpp: a message is set, then getNext() is      *)
(* called until it returns "<EOM>"; a caller that catches the exception    *)
(* goes on with the loop.  The loop keeps running, hence the fairness.     *)
(***************************************************************************)
AtEOM == ret.op = "getNext" /\ ret.kind = "value" /\ ret.val = "<EOM>"

LoopSet == (ret.op = "construct" \/ AtEOM) /\ \E msg \in Messages : SetMessage(msg)

LoopGetNext == ret.op # "construct" /\ ~AtEOM /\ GetNext

LoopNext == LoopSet \/ LoopGetNext

LoopSpec == Init /\ [][LoopNext]_vars /\ WF_vars(LoopGetNext)

(***************************************************************************)
(* Reference notions used by the properties.                               *)
(***************************************************************************)
RECURSIVE JoinStr(_, _)
JoinStr(seq, sep) ==
  IF Len(seq) = 0 THEN ""
  ELSE IF Len(seq) = 1 THEN seq[1]
  ELSE seq[1] \o sep \o JoinStr(Tail(seq), sep)

ProsignKeys == {<<"A", "R">>, <<"S", "K">>, <<"B", "T">>}

SupportedChars == DOMAIN morseTable

\* positions of a word whose character is outside the symbol table
BadPositions(word) == {j \in 1..Len(word) : toupper(word[j]) \notin SupportedChars}

BadWord(word) == word \notin ProsignKeys /\ BadPositions(word) # {}

FirstBadChar(word) ==
  toupper(word[CHOOSE j \in BadPositions(word) : \A k \in BadPositions(word) : j <= k])

\* a word's encoding: the prosign pattern, or the patterns of its characters
WordEncoding(word) ==
  IF word \in ProsignKeys THEN prosigns[word]
  ELSE JoinStr([j \in 1..Len(word) |-> morseTable[toupper(word[j])]], "   ")

WordOutcome(word) ==
  IF BadWord(word) THEN Thrown(FirstBadChar(word)) ELSE Returned(WordEncoding(word))

Outcome(r) == [kind |-> r.kind, val |-> r.val, ch |-> r.ch]

IsGetNextStep == ret'.op = "getNext" /\ calls' = calls + 1

IsGetMessageStep == ret'.op = "getMessage" /\ calls' = calls

(***************************************************************************)
(* C1: after setMessage, the k-th getNext() is about the k-th word of the  *)
(* message (its encoding, or the failure on it), call n+1 returns "<EOM>"; *)
(* for "AR SK" the calls return ". - . - .", ". . . - . -", "<EOM>".       *)
(***************************************************************************)
C1_KthCallKthWord ==
  ret.op = "getNext" =>
    /\ calls <= Len(words) =>
         /\ ret.word = words[calls]
         /\ Outcome(ret) = WordOutcome(words[calls])
    /\ calls = Len(words) + 1 => Outcome(ret) = Returned("<EOM>")
    /\ message = MsgARSK =>
         /\ calls = 1 => Outcome(ret) = Returned(". - . - .")
         /\ calls = 2 => Outcome(ret) = Returned(". . . - . -")
         /\ calls = 3 => Outcome(ret) = Returned("<EOM>")

C1_Witness ==
  /\ message = MsgARSK
  /\ ret.op = "getNext"
  /\ calls = 3
  /\ ret.val = "<EOM>"

(***************************************************************************)
(* C2: once the cursor is at the end, getNext() returns "<EOM>" and leaves *)
(* message, words and wordIndex unchanged; the cursor never wraps.         *)
(***************************************************************************)
C2_ExhaustedIsTerminal ==
  [][(IsGetNextStep /\ wordIndex >= Len(words)) =>
       /\ Outcome(ret') = Returned("<EOM>")
       /\ UNCHANGED <<message, words, wordIndex>>]_vars

C2_Witness ==
  /\ ret.op = "getNext"
  /\ ret.val = "<EOM>"
  /\ Len(words) > 0
  /\ wordIndex = Len(words)
  /\ calls = Len(words) + 2

(***************************************************************************)
(* C3: setMessage(text), in any state, stores text, recomputes the words   *)
(* from it and resets the cursor to 0, so the next getNext() is about the  *)
(* first word of the new message.                                          *)
(***************************************************************************)
C3_SetMessageResets ==
  [][/\ (ret'.op = "setMessage" /\ calls' = 0) =>
          /\ message' = ret'.arg
          /\ words' = tokenizeMessage(ret'.arg)
          /\ wordIndex' = 0
     /\ (ret.op = "setMessage" /\ IsGetNextStep) =>
          IF Len(words) > 0
          THEN ret'.word = words[1] /\ Outcome(ret') = WordOutcome(words[1])
          ELSE Outcome(ret') = Returned("<EOM>")]_vars

\* a setMessage made on a partly consumed or exhausted message
C3_Witness ==
  /\ ret.op = "setMessage"
  /\ ret.from \in {"Partial", "Exhausted"}
  /\ Len(words) > 0
  /\ wordIndex = 0

(***************************************************************************)
(* C4: a getNext() on a word that is no prosign and has an unsupported     *)
(* character throws, and the cursor has advanced by one all the same; the  *)
(* next getNext() deals with the following word, or returns "<EOM>".       *)
(***************************************************************************)
C4_FailedWordConsumed ==
  [][/\ (IsGetNextStep /\ wordIndex < Len(words) /\ BadWord(words[wordIndex + 1])) =>
          /\ ret'.kind = "throw"
          /\ ret'.ch = FirstBadChar(words[wordIndex + 1])
          /\ wordIndex' = wordIndex + 1
     /\ (ret.op = "getNext" /\ ret.kind = "throw" /\ IsGetNextStep) =>
          IF calls < Len(words)
          THEN ret'.word = words[calls + 1]
          ELSE Outcome(ret') = Returned("<EOM>")]_vars

\* the word after a failed word has been delivered
C4_Witness ==
  /\ message = MsgHelloTilde
  /\ ret.op = "getNext"
  /\ calls = 3
  /\ wordIndex = 3
  /\ ret.kind = "value"
  /\ ret.word = <<"W", "O", "R", "L", "D">>

(***************************************************************************)
(* C5: getMessage(), returning or throwing, leaves message, words and      *)
(* wordIndex unchanged, and its outcome is the same before, between and    *)
(* after getNext() calls on the same message.                              *)
(***************************************************************************)
C5_GetMessageReadOnly ==
  [][IsGetMessageStep =>
       /\ UNCHANGED <<message, words, wordIndex>>
       /\ gm.kind # "none" => Outcome(ret') = gm]_vars

\* a second getMessage() made after the cursor has moved
C5_Witness ==
  /\ ret.op = "getMessage"
  /\ gm.kind = "value"
  /\ gm.val # ""
  /\ wordIndex > 0
  /\ wordIndex < Len(words)
  /\ Outcome(ret) = gm

(***************************************************************************)
(* C6: getMessage() throws exactly when some word that is no prosign has a *)
(* character outside the symbol table; the error carries the upper-cased   *)
(* first such character of the first such word and no partial encoding;    *)
(* "HELLO ~ WORLD" throws with '~', "HELLO @ WORLD" returns.               *)
(***************************************************************************)
BadWords == {i \in 1..Len(words) : BadWord(words[i])}

FirstBadWord == words[CHOOSE i \in BadWords : \A k \in BadWords : i <= k]

C6_GetMessageThrows ==
  ret.op = "getMessage" =>
    /\ ret.kind = "throw" <=> BadWords # {}
    /\ ret.kind = "throw" => Outcome(ret) = Thrown(FirstBadChar(FirstBadWord))
    /\ message = MsgHelloTilde => Outcome(ret) = Thrown("~")
    /\ message = MsgHelloAt => ret.kind = "value"

\* the first offending word comes after a good word and has two bad characters
C6_Witness ==
  /\ message = MsgTwoBad
  /\ ret.op = "getMessage"
  /\ ret.kind = "throw"
  /\ ret.ch = "#"
  /\ ret.val = ""

(***************************************************************************)
(* C7: when every word encodes, getMessage() returns the word encodings in *)
(* order joined by exactly 7 spaces, a word that is no prosign being its   *)
(* characters' patterns joined by exactly 3 spaces, with nothing before    *)
(* the first or after the last; getNext() returns the bare word encoding.  *)
(***************************************************************************)
C7_Separators ==
  /\ (ret.op = "getMessage" /\ BadWords = {}) =>
       Outcome(ret) =
         Returned(JoinStr([i \in 1..Len(words) |-> WordEncoding(words[i])], "       "))
  /\ (ret.op = "getNext" /\ ret.word # <<>> /\ ~BadWord(ret.word)) =>
       Outcome(ret) = Returned(WordEncoding(ret.word))

C7_Witness ==
  /\ message = MsgHelloAt
  /\ ret.op = "getMessage"
  /\ ret.kind = "value"
  /\ Len(words) = 3
  /\ Len(ret.val) = 103

(***************************************************************************)
(* C8: after setMessage("CQ AR DE K"), getMessage() returns the string     *)
(* "- . - .       . - . - .       - . .       - . -".                      *)
(***************************************************************************)
C8_AsClaimed ==
  (ret.op = "getMessage" /\ message = MsgCQ) =>
    Outcome(ret) = Returned("- . - .       . - . - .       - . .       - . -")

\* C8 amended: every letter of CQ and DE is encoded, letters 3 spaces apart
C8_CQARDEK ==
  (ret.op = "getMessage" /\ message = MsgCQ) =>
    Outcome(ret) =
      Returned("- . - .   - - . -       . - . - .       - . .   .       - . -")

C8_Witness ==
  /\ message = MsgCQ
  /\ ret.op = "getMessage"
  /\ ret.kind = "value"
  /\ Len(words) = 4

(***************************************************************************)
(* C9: a word gets a prosign pattern only when the whole word is AR, SK or *)
(* BT; a word that contains or extends a key is encoded character by       *)
(* character by getMessage() and getNext(), and fails on an unsupported    *)
(* character.                                                              *)
(***************************************************************************)
CharByChar(word) ==
  IF BadPositions(word) # {} THEN Thrown(FirstBadChar(word))
  ELSE Returned(JoinStr([j \in 1..Len(word) |-> morseTable[toupper(word[j])]], "   "))

ContainsKey(word) ==
  \E k \in ProsignKeys : \E p \in 1..Len(word) :
    p + Len(k) - 1 <= Len(word) /\ SubSeq(word, p, p + Len(k) - 1) = k

C9_ProsignExact ==
  /\ (ret.op = "getNext" /\ ret.word # <<>>) =>
       Outcome(ret) = IF ret.word \in ProsignKeys THEN Returned(prosigns[ret.word])
                      ELSE CharByChar(ret.word)
  /\ (ret.op = "getMessage" /\ Len(words) = 1) =>
       Outcome(ret) = IF words[1] \in ProsignKeys THEN Returned(prosigns[words[1]])
                      ELSE CharByChar(words[1])
  /\ (ret.op = "getMessage" /\ \A i \in 1..Len(words) : words[i] \notin ProsignKeys) =>
       IF \E i \in 1..Len(words) : CharByChar(words[i]).kind = "throw"
       THEN ret.kind = "throw"
       ELSE Outcome(ret) =
              Returned(JoinStr([i \in 1..Len(words) |-> CharByChar(words[i]).val],
                               "       "))

\* getNext() on a word such as ARS or XAR
C9_Witness ==
  /\ ret.op = "getNext"
  /\ ContainsKey(ret.word)
  /\ ret.word \notin ProsignKeys
  /\ Outcome(ret) = CharByChar(ret.word)
  /\ ret.kind = "value"

(***************************************************************************)
(* C10: encoding is case-insensitive: a one-character word c encodes to    *)
(* the table entry of uppercase(c), and getMessage() and every getNext()   *)
(* give for a message what they give for the upper-cased message.          *)
(***************************************************************************)
UpperMsg(msg) == [j \in 1..Len(msg) |-> toupper(msg[j])]

HasLowerCase(msg) == \E j \in 1..Len(msg) : toupper(msg[j]) # msg[j]

C10_CaseInsensitive ==
  /\ (ret.op = "getNext" /\ calls = 1 /\ Len(message) = 1
        /\ toupper(message[1]) \in SupportedChars) =>
       Outcome(ret) = Returned(morseTable[toupper(message[1])])
  /\ ret.op = "getMessage" => Outcome(ret) = getMessage(UpperMsg(message))
  /\ ret.op = "getNext" =>
       Outcome(ret) = getNext(tokenizeMessage(UpperMsg(message)), calls - 1).out

\* a lower-case spelling of a prosign, taken by getNext()
C10_Witness ==
  /\ ret.op = "getNext"
  /\ HasLowerCase(message)
  /\ ret.word \in ProsignKeys
  /\ ret.kind = "value"

(***************************************************************************)
(* C11: an empty or all-whitespace message leaves the translator Empty:    *)
(* getNext() returns "<EOM>" at once, getMessage() returns the empty       *)
(* string, and neither throws.                                             *)
(***************************************************************************)
AllWhite(msg) == \A j \in 1..Len(msg) : msg[j] \in WhiteSpace

C11_BlankIsEmpty ==
  (ret.op # "construct" /\ AllWhite(message)) =>
    /\ StateName(words, wordIndex) = "Empty"
    /\ ret.op = "getNext" => Outcome(ret) = Returned("<EOM>")
    /\ ret.op = "getMessage" => Outcome(ret) = Returned("")

\* getMessage() after a first getNext() on a message of blanks only
C11_Witness ==
  /\ message = MsgBlank
  /\ ret.op = "getMessage"
  /\ ret.val = ""
  /\ ret.kind = "value"
  /\ calls = 1
  /\ drain = NoDrain

(***************************************************************************)
(* C12: clearMessage(), from any state, empties message and words and      *)
(* sets the cursor to 0; a second clearMessage() changes nothing; after it *)
(* getNext() returns "<EOM>" and getMessage() returns the empty string, as *)
(* for a freshly constructed translator.                                   *)
(***************************************************************************)
Fresh == message = <<>> /\ words = <<>> /\ wordIndex = 0

C12_ClearMessage ==
  [][/\ ret'.op = "clearMessage" => Fresh'
     /\ (ret.op = "clearMessage" /\ ret'.op = "clearMessage") =>
          UNCHANGED <<message, words, wordIndex>>
     /\ (ret.op = "clearMessage" /\ IsGetNextStep) =>
          Outcome(ret') = Returned("<EOM>") /\ Fresh'
     /\ (ret.op = "clearMessage" /\ IsGetMessageStep) =>
          Outcome(ret') = Returned("") /\ Fresh']_vars

\* a clearMessage() made on a partly consumed message
C12_Witness ==
  /\ ret.op = "clearMessage"
  /\ ret.from = "Partial"
  /\ Fresh

(***************************************************************************)
(* C13: setMessage never fails, whatever the input; the unsupported-       *)
(* character error comes only from getMessage() and from the getNext()     *)
(* that takes the offending word, so getNext() on the earlier, encodable   *)
(* words of the same message succeeds.                                     *)
(***************************************************************************)
C13_LazyErrors ==
  /\ ret.op \in {"construct", "setMessage", "clearMessage"} => ret.kind = "void"
  /\ (ret.op = "getNext" /\ ret.kind = "throw") =>
       /\ BadWord(ret.word)
       /\ calls <= Len(words)
       /\ ret.word = words[calls]
  /\ (ret.op = "getNext" /\ calls <= Len(words) /\ ~BadWord(words[calls])) =>
       ret.kind = "value"
  /\ (ret.op = "getMessage" /\ ret.kind = "throw") => BadWords # {}

\* the first word of "HELLO ~ WORLD" is delivered although the second is bad
C13_Witness ==
  /\ message = MsgHelloTilde
  /\ ret.op = "getNext"
  /\ calls = 1
  /\ ret.kind = "value"
  /\ BadWords = {2}

(***************************************************************************)
(* C14: 0 <= wordIndex <= number of words in every state; between two      *)
(* setMessage/clearMessage calls the cursor never decreases, goes up by    *)
(* exactly one with a getNext() that returns a word encoding, and stays    *)
(* with a getNext() that returns "<EOM>".                                  *)
(***************************************************************************)
CursorInRange == 0 <= wordIndex /\ wordIndex <= Len(words)

C14_CursorMonotone ==
  [][/\ CursorInRange /\ CursorInRange'
     /\ ret'.op \notin {"setMessage", "clearMessage"} => wordIndex' >= wordIndex
     /\ (IsGetNextStep /\ ret'.kind = "value" /\ ret'.val # "<EOM>") =>
          wordIndex' = wordIndex + 1
     /\ (IsGetNextStep /\ ret'.kind = "value" /\ ret'.val = "<EOM>") =>
          wordIndex' = wordIndex]_vars

\* the last word has been delivered and the sentinel returned after it
C14_Witness ==
  /\ ret.op = "getNext"
  /\ ret.val = "<EOM>"
  /\ Len(words) >= 2
  /\ wordIndex = Len(words)
  /\ Len(drain.parts) = Len(words)

(***************************************************************************)
(* C15: in every state the stored words are the tokenization of the stored *)
(* message, so getMessage(), which tokenizes message again, and getNext(), *)
(* which reads words, work on the same word sequence.                      *)
(***************************************************************************)
C15_ConsistentTriple ==
  /\ words = tokenizeMessage(message)
  /\ CursorInRange
  /\ (ret.op = "getNext" /\ ret.word # <<>>) =>
       /\ calls <= Len(tokenizeMessage(message))
       /\ ret.word = tokenizeMessage(message)[calls]
  /\ (ret.op = "getNext" /\ ret.word = <<>>) => calls > Len(tokenizeMessage(message))

\* a message partly consumed, then read in bulk
C15_Witness ==
  /\ ret.op = "getMessage"
  /\ ret.kind = "value"
  /\ Len(words) >= 2
  /\ wordIndex = 1
  /\ Len(drain.parts) = 1

(***************************************************************************)
(* C16: bulk and incremental modes agree: draining getNext() from the      *)
(* start until "<EOM>" meets no failure exactly when getMessage()          *)
(* succeeds, and then the results before the sentinel, joined by exactly 7 *)
(* spaces, are the getMessage() result.                                    *)
(***************************************************************************)
Drained == calls > Len(words) /\ wordIndex = Len(words)

C16_BulkEqualsIncremental ==
  (Drained /\ gm.kind # "none") =>
    /\ ~drain.failed <=> gm.kind = "value"
    /\ gm.kind = "value" => JoinStr(drain.parts, "       ") = gm.val

\* "CQ AR DE K" read in bulk and drained word by word
C16_Witness ==
  /\ message = MsgCQ
  /\ Drained
  /\ gm.kind = "value"
  /\ Len(drain.parts) = 4
  /\ ~drain.failed

(***************************************************************************)
(* C17: after setMessage with n words, repeated getNext() calls reach the  *)
(* end of the message after exactly n calls, returned or failed, and call  *)
(* n+1 is the first to return "<EOM>"; a loop that calls getNext() until   *)
(* "<EOM>" terminates, also when words fail to encode.                     *)
(***************************************************************************)
C17_DrainTerminates ==
  /\ [](wordIndex = IF calls < Len(words) THEN calls ELSE Len(words))
  /\ [](ret.op = "getNext" => (AtEOM <=> calls = Len(words) + 1))
  /\ (ret.op = "setMessage" ~> AtEOM)

\* the loop has ended on a message with a word that failed
C17_Witness ==
  /\ AtEOM
  /\ drain.failed
  /\ Len(words) = 3
  /\ calls = 4
  /\ Len(drain.parts) = 2

(***************************************************************************)
(* C18: every stored word is non-empty, has no whitespace and no lower-    *)
(* case letter, and the words in order are the maximal whitespace-free     *)
(* runs of message, upper-cased: whitespace runs collapse, leading and     *)
(* trailing whitespace gives no word.                                      *)
(***************************************************************************)
MaximalRuns(msg) ==
  {r \in (1..Len(msg)) \X (1..Len(msg)) :
     /\ r[1] <= r[2]
     /\ \A j \in r[1]..r[2] : msg[j] \notin WhiteSpace
     /\ r[1] = 1 \/ msg[r[1] - 1] \in WhiteSpace
     /\ r[2] = Len(msg) \/ msg[r[2] + 1] \in WhiteSpace}

RunsBefore(msg, r) == {q \in MaximalRuns(msg) : q[1] < r[1]}

C18_WordsAreRuns ==
  /\ \A k \in 1..Len(words) :
       /\ Len(words[k]) > 0
       /\ \A j \in 1..Len(words[k]) :
            words[k][j] \notin WhiteSpace /\ words[k][j] \notin DOMAIN UpperOf
  /\ Len(words) = Cardinality(MaximalRuns(message))
  /\ \A r \in MaximalRuns(message) :
       words[Cardinality(RunsBefore(message, r)) + 1] =
         [j \in 1..(r[2] - r[1] + 1) |-> toupper(message[r[1] + j - 1])]

\* leading tab, newline between words, lower case, trailing carriage return
C18_Witness ==
  /\ message = MsgMixed
  /\ ret.op = "setMessage"
  /\ words = << <<"B", "T">>, <<"S", "K">>, <<"#", "A">>, <<"B", "T", "S">> >>

====
